---- MODULE Spec2Model ----
(***************************************************************************)
(* Flush / rotation / double-buffer pipeline of firmware/main/firmware.c.  *)
(* The file holds two builds of the firmware: the plain one (lines 1-152,  *)
(* panel used in its native orientation) and the rotated one (lines        *)
(* 154-347, LVGL in landscape on a portrait panel).  `variant` selects the *)
(* build.                                                                  *)
(***************************************************************************)
EXTENDS Integers, Sequences, FiniteSets, TLC

VARIABLES
    variant,    \* "plain" | "rotated": which build runs
    pc,         \* position of the main task (app_main / lv_timer_handler / flush_cb)
    bufs,       \* <<buf1, buf2>>: results of the two startup allocations
    diag,       \* a diagnostic has been printed (ESP_LOGE / assert message)
    timer,      \* the periodic lv_tick timer has been started
    sys_time,   \* LVGL's millisecond counter, advanced by lv_tick_inc
    ticks,      \* number of lvgl_tick_cb invocations so far
    raw,        \* the rectangle as invalidated, before the rounder callback
    area,       \* the rectangle after the rounder callback; flush_cb's `area`
    px_map,     \* which pixel buffer (1 or 2) flush_cb was handed; 0 = none
    owner,      \* owner[b]: "renderer" or "flush", for b in {1, 2}
    rendering,  \* the buffer the renderer is writing right now; 0 = none
    line_buf,   \* the scratch tile pointer: "none", "ok", "NULL" or "freed"
    n,          \* the band loop variable of the rotated flush_cb (uint16_t)
    writes,     \* esp_lcd_panel_draw_bitmap calls of this flush cycle
    log,        \* events of this flush cycle: "swap", "write", "ready"
    reads,      \* [lo, hi]: lowest and highest color_map index read by the last band
    nullStore,  \* a pixel was stored through a NULL line_buf
    tile,       \* contents of line_buf: index -> [src, hits] (frame harness)
    gram,       \* panel memory: native column -> native row -> sample (frame harness)
    frameY      \* next logical row of the synthetic frame to push (frame harness)

vars == <<variant, pc, bufs, diag, timer, sys_time, ticks, raw, area, px_map,
          owner, rendering, line_buf, n, writes, log, reads, nullStore,
          tile, gram, frameY>>

frameVars == <<tile, gram, frameY>>

(***************************************************************************)
(* Program constants.                                                      *)
(***************************************************************************)
LCD_H_RES == 280
LCD_V_RES == 456
LVGL_WIDTH == 456
LVGL_HEIGHT == 280
DRAW_BUF_LINES == 70
DRAW_BUF_LINES_PLAIN == 152
rows == 8
cols == LVGL_WIDTH
TickPeriodMs == 2

(***************************************************************************)
(* Bounds of the model.                                                    *)
(***************************************************************************)
MaxTicks == 2
MaxWriteFailures == 1
MaxCoord == 9
MaxRegionRows == 80

(***************************************************************************)
(* 32-bit unsigned arithmetic, carried as <<high half, low half>> of 16    *)
(* bits each, as `area->x1 &= ~0x7U` computes in unsigned int.             *)
(***************************************************************************)
Half == 2 ^ 16

RECURSIVE BitAnd(_, _)
BitAnd(a, b) ==
    IF a = 0 \/ b = 0 THEN 0
    ELSE (a % 2) * (b % 2) + 2 * BitAnd(a \div 2, b \div 2)

\* int32_t -> unsigned int (two's complement)
ToU32(x) == <<(x \div Half) % Half, x % Half>>

\* unsigned int -> int32_t on assignment back to the lv_area_t field
ToI32(u) == IF u[1] >= Half \div 2 THEN (u[1] - Half) * Half + u[2]
            ELSE u[1] * Half + u[2]

AndU32(u, m) == <<BitAnd(u[1], m[1]), BitAnd(u[2], m[2])>>

AddU32(u, k) == LET lo == u[2] + k
                IN  <<(u[1] + lo \div Half) % Half, lo % Half>>

\* ~0x7U
NotSevenU == <<Half - 1, Half - 8>>

Rect(x1, y1, x2, y2) == [x1 |-> x1, y1 |-> y1, x2 |-> x2, y2 |-> y2]

\* A plausible slip: the far edges get + 7 without the mask.
rounder_no_mask(a) ==
    [x1 |-> ToI32(AndU32(ToU32(a.x1), NotSevenU)),
     y1 |-> ToI32(AndU32(ToU32(a.y1), NotSevenU)),
     x2 |-> ToI32(AddU32(ToU32(a.x2), 7)),
     y2 |-> ToI32(AddU32(ToU32(a.y2), 7))]

lvgl_display_rounder_callback(a) ==
    [x1 |-> ToI32(AndU32(ToU32(a.x1), NotSevenU)),
     y1 |-> ToI32(AndU32(ToU32(a.y1), NotSevenU)),
     x2 |-> ToI32(AddU32(AndU32(ToU32(a.x2), NotSevenU), 7)),
     y2 |-> ToI32(AddU32(AndU32(ToU32(a.y2), NotSevenU), 7))]

(***************************************************************************)
(* Geometry of the two builds.                                             *)
(***************************************************************************)
\* lv_display_create(hor_res, ver_res)
LogicalW(v) == IF v = "rotated" THEN LVGL_WIDTH ELSE LCD_H_RES
LogicalH(v) == IF v = "rotated" THEN LCD_H_RES ELSE LCD_V_RES

\* buf_size / sizeof(lv_color16_t): pixels one draw buffer holds
BufPixels(v) == IF v = "rotated" THEN LVGL_WIDTH * DRAW_BUF_LINES
                ELSE LCD_H_RES * DRAW_BUF_LINES_PLAIN

AreaW(a) == a.x2 - a.x1 + 1
AreaH(a) == a.y2 - a.y1 + 1
\* the pixel count flush_cb passes to lv_draw_sw_rgb565_swap
AreaPixels(a) == AreaW(a) * AreaH(a)

InPanel(v, a) == /\ 0 <= a.x1 /\ a.x1 <= a.x2 /\ a.x2 < LogicalW(v)
                 /\ 0 <= a.y1 /\ a.y1 <= a.y2 /\ a.y2 < LogicalH(v)

(***************************************************************************)
(* The rotated flush_cb's band loop.                                       *)
(***************************************************************************)
\* A plausible slip: the loop stops as soon as a whole band no longer fits
\* below n.
LoopCondWholeBand(a, nn) == nn + rows < a.y2 - a.y1

\* for (uint16_t n = 0; n < area->y2 - area->y1; n += rows)
LoopCond(a, nn) == nn < a.y2 - a.y1
LoopStep(nn) == (nn + rows) % Half

\* A plausible slip: the band offset n is left out of the source row.
SrcIndexNoBand(nn, x, y) == y * cols + x

\* color_map[(n + y) * cols + x]
SrcIndex(nn, x, y) == (nn + y) * cols + x

\* A plausible slip: the row order inside the band is not reversed.
DstIndexUnreversed(x, y) == x * rows + (rows - y)

\* line_buf[x * rows + (rows - y - 1)]
DstIndex(x, y) == x * rows + (rows - y - 1)

\* LVGL_WIDTH * rows: the number of samples line_buf holds
TileLen == LVGL_WIDTH * rows

LoopXs == 0 .. (LVGL_WIDTH - 1)
LoopYs == 0 .. (rows - 1)

\* lowest and highest color_map index one band reads: SrcIndex grows with x
\* and with y, so they are read by the first and the last store of the band
BandReads(nn) ==
    [lo |-> SrcIndex(nn, 0, 0),
     hi |-> SrcIndex(nn, LVGL_WIDTH - 1, rows - 1)]

\* A plausible slip: y_offset one column short.
BandWindowShort(a, nn) ==
    LET y_offset == LCD_H_RES - a.y1 - nn - 1
    IN  [x_start |-> y_offset - rows, y_start |-> 0,
         x_end |-> y_offset, y_end |-> LCD_V_RES]

\* int y_offset = LCD_H_RES - area->y1 - n;
\* esp_lcd_panel_draw_bitmap(panel, y_offset - rows, 0, y_offset, LCD_V_RES, line_buf)
BandWindow(a, nn) ==
    LET y_offset == LCD_H_RES - a.y1 - nn
    IN  [x_start |-> y_offset - rows, y_start |-> 0,
         x_end |-> y_offset, y_end |-> LCD_V_RES]

\* esp_lcd_panel_draw_bitmap(panel, area->x1, area->y1, area->x2 + 1, area->y2 + 1, color_map)
PlainWindow(a) ==
    [x_start |-> a.x1, y_start |-> a.y1, x_end |-> a.x2 + 1, y_end |-> a.y2 + 1]

(***************************************************************************)
(* Statement order of flush_cb.                                            *)
(***************************************************************************)
\* A plausible slip: lv_disp_flush_ready called right after the byte swap.
flush_cb_steps_ready_first(v) ==
    IF v = "rotated"
    THEN <<"flush_swap", "flush_ready", "flush_alloc", "flush_loop">>
    ELSE <<"flush_swap", "flush_ready", "flush_draw">>

flush_cb_steps(v) ==
    IF v = "rotated"
    THEN <<"flush_swap", "flush_alloc", "flush_loop", "flush_ready">>
    ELSE <<"flush_swap", "flush_draw", "flush_ready">>

\* the statement after p; "returned" is flush_cb's return to lv_timer_handler
StepAfter(v, p) ==
    LET s == flush_cb_steps(v)
        i == CHOOSE k \in 1 .. Len(s) : s[k] = p
    IN  IF i = Len(s) THEN "returned" ELSE s[i + 1]

\* A plausible slip: the tick advances by 1.
lv_tick_inc_one(t) == t + 1

\* lv_tick_inc(2)
lvgl_tick_cb(t) == t + TickPeriodMs

(***************************************************************************)
(* Pixel data.                                                             *)
(***************************************************************************)
\* lv_draw_sw_rgb565_swap: the two bytes of a 16-bit sample change places
Swap16(s) == (s % 256) * 256 + (s \div 256)

\* the synthetic frame: the sample of logical (x, y) encodes (x, y)
Frame(x, y) == (y * LVGL_WIDTH + x) % Half

\* a sample that is not part of the rendered block
Garbage == 0 - 1

\* color_map[i] after the byte swap: the renderer lays the region out row by
\* row, (x2-x1+1) samples per row; the swap covers w*h samples
PxMapAt(a, i) ==
    IF 0 <= i /\ i < AreaPixels(a)
    THEN Swap16(Frame(a.x1 + (i % AreaW(a)), a.y1 + (i \div AreaW(a))))
    ELSE Garbage

\* line_buf as heap_caps_aligned_alloc returns it: nothing stored yet
FreshTile == [i \in 0 .. (TileLen - 1) |-> [src |-> 0 - 1, hits |-> 0]]

\* the inner loop: for (uint8_t y = 0; y < rows; y++) line_buf[..] = color_map[..]
RECURSIVE FillColumn(_, _, _, _)
FillColumn(t, nn, x, y) ==
    IF y >= rows THEN t
    ELSE FillColumn([t EXCEPT ![DstIndex(x, y)] =
                        [src |-> SrcIndex(nn, x, y), hits |-> @.hits + 1]],
                    nn, x, y + 1)

\* the middle loop: for (uint16_t x = 0; x < LVGL_WIDTH; x++), here the
\* iterations x = lo .. hi in their order (halved to keep the nesting shallow)
RECURSIVE FillColumns(_, _, _, _)
FillColumns(t, nn, lo, hi) ==
    IF lo > hi THEN t
    ELSE IF lo = hi THEN FillColumn(t, nn, lo, 0)
    ELSE LET mid == (lo + hi) \div 2
             first == FillColumns(t, nn, lo, mid)
         IN  IF DOMAIN first = {} THEN first
             ELSE FillColumns(first, nn, mid + 1, hi)

FillTile(t, nn) == FillColumns(t, nn, 0, LVGL_WIDTH - 1)

\* the sample line_buf[i] holds when the tile is sent
TileSample(t, a, i) ==
    IF i \in DOMAIN t /\ t[i].src >= 0 THEN PxMapAt(a, t[i].src) ELSE Garbage

\* esp_lcd_panel_draw_bitmap(panel, x_start, y_start, x_end, y_end, data):
\* (x_end-x_start)*(y_end-y_start) samples in native scan order
DrawBitmap(g, w, t, a) ==
    [c \in DOMAIN g |->
        IF w.x_start <= c /\ c < w.x_end
        THEN [r \in DOMAIN g[c] |->
                IF w.y_start <= r /\ r < w.y_end
                THEN TileSample(t, a, (r - w.y_start) * (w.x_end - w.x_start)
                                        + (c - w.x_start))
                ELSE g[c][r]]
        ELSE g[c]]


(***************************************************************************)
(* The application: app_main, lv_timer_handler, flush_cb, lvgl_tick_cb.    *)
(***************************************************************************)
NoArea == Rect(0, 0, 0, 0)
NoReads == [lo |-> 0, hi |-> -1]
BlankGram == <<>>
BlankTile == <<>>

\* rectangles the widgets invalidate, already clipped to the screen by LVGL
RawXs(v) == {x \in {0, 10, 50, 455} : x < LogicalW(v)}
RawYs(v) == {y \in {0, 3, 9, 79, 272, 279} : y < LogicalH(v)}
RawRects(v) == {Rect(x1, y1, x2, y2) : x1 \in RawXs(v), x2 \in RawXs(v),
                                       y1 \in RawYs(v), y2 \in RawYs(v)}

Init ==
    /\ variant \in {"plain", "rotated"}
    /\ pc = "start"
    /\ bufs = <<"none", "none">>
    /\ diag = FALSE
    /\ timer = FALSE
    /\ sys_time = 0
    /\ ticks = 0
    /\ raw = NoArea
    /\ area = NoArea
    /\ px_map = 0
    /\ owner = <<"renderer", "renderer">>
    /\ rendering = 0
    /\ line_buf = "none"
    /\ n = 0
    /\ writes = <<>>
    /\ log = <<>>
    /\ reads = NoReads
    /\ nullStore = FALSE
    /\ tile = BlankTile
    /\ gram = BlankGram
    /\ frameY = 0

\* app_main up to the main loop: the two draw buffers are allocated; a NULL
\* result ends the process (assert in the plain build, ESP_LOGE + abort in
\* the rotated one); otherwise the buffers are registered and the tick timer
\* is started.
AppStart ==
    /\ pc = "start"
    /\ \E b1 \in {"ok", "NULL"}, b2 \in {"ok", "NULL"} :
        /\ bufs' = <<b1, b2>>
        /\ IF b1 = "ok" /\ b2 = "ok"
           THEN /\ pc' = "loop"
                /\ timer' = TRUE
                /\ diag' = diag
           ELSE /\ pc' = "aborted"
                /\ timer' = timer
                /\ diag' = TRUE
    /\ UNCHANGED <<variant, sys_time, ticks, raw, area, px_map, owner,
                   rendering, line_buf, n, writes, log, reads, nullStore>>
    /\ UNCHANGED frameVars

\* the esp_timer callback, in timer context
Tick ==
    /\ timer
    /\ pc \notin {"aborted", "fault"}
    /\ ticks < MaxTicks
    /\ sys_time' = lvgl_tick_cb(sys_time)
    /\ ticks' = ticks + 1
    /\ UNCHANGED <<variant, pc, bufs, diag, timer, raw, area, px_map, owner,
                   rendering, line_buf, n, writes, log, reads, nullStore>>
    /\ UNCHANGED frameVars

\* lv_timer_handler: an invalidated rectangle goes through the rounder
\* callback and the renderer starts drawing it into a buffer it owns.
RenderStart ==
    /\ pc = "loop"
    /\ \E r \in RawRects(variant), b \in {1, 2} :
        LET a == lvgl_display_rounder_callback(r) IN
        /\ r.x1 <= r.x2 /\ r.y1 <= r.y2
        /\ InPanel(variant, a)
        /\ AreaPixels(a) <= BufPixels(variant)
        /\ AreaH(a) <= MaxRegionRows
        /\ owner[b] = "renderer"
        /\ raw' = r
        /\ area' = a
        /\ rendering' = b
    /\ pc' = "render"
    /\ UNCHANGED <<variant, bufs, diag, timer, sys_time, ticks, px_map, owner,
                   line_buf, n, writes, log, reads, nullStore>>
    /\ UNCHANGED frameVars

\* the renderer is done with the region and calls flush_cb(disp, area, px_map)
RenderDone ==
    /\ pc = "render"
    /\ px_map' = rendering
    /\ owner' = [owner EXCEPT ![rendering] = "flush"]
    /\ rendering' = 0
    /\ pc' = "flush_swap"
    /\ UNCHANGED <<variant, bufs, diag, timer, sys_time, ticks, raw, area,
                   line_buf, n, writes, log, reads, nullStore>>
    /\ UNCHANGED frameVars

\* lv_draw_sw_rgb565_swap(color_map, w * h)
FlushSwap ==
    /\ pc = "flush_swap"
    /\ log' = Append(log, "swap")
    /\ pc' = StepAfter(variant, "flush_swap")
    /\ UNCHANGED <<variant, bufs, diag, timer, sys_time, ticks, raw, area, px_map,
                   owner, rendering, line_buf, n, writes, reads, nullStore>>
    /\ UNCHANGED frameVars

\* line_buf = heap_caps_aligned_alloc(...): the result is not tested
FlushAlloc ==
    /\ pc = "flush_alloc"
    /\ line_buf' \in {"ok", "NULL"}
    /\ n' = 0
    /\ pc' = StepAfter(variant, "flush_alloc")
    /\ UNCHANGED <<variant, bufs, diag, timer, sys_time, ticks, raw, area, px_map,
                   owner, rendering, writes, log, reads, nullStore>>
    /\ UNCHANGED frameVars

Failures(w) == Cardinality({i \in 1 .. Len(w) : ~w[i].ok})

\* One iteration of the band loop: the tile is filled from color_map and
\* handed to esp_lcd_panel_draw_bitmap, whose result is dropped.
FlushBand ==
    /\ pc = "flush_loop"
    /\ LoopCond(area, n)
    /\ \E ok \in BOOLEAN :
        /\ ~ok => Failures(writes) < MaxWriteFailures
        /\ writes' = Append(writes,
              BandWindow(area, n) @@ [buf |-> line_buf, ok |-> ok,
                                      held |-> owner[px_map]])
    /\ reads' = BandReads(n)
    /\ nullStore' = (nullStore \/ line_buf = "NULL")
    /\ log' = Append(log, "write")
    /\ n' = LoopStep(n)
    /\ UNCHANGED <<variant, pc, bufs, diag, timer, sys_time, ticks, raw, area,
                   px_map, owner, rendering, line_buf>>
    /\ UNCHANGED frameVars

\* The same iteration when the hardware traps: a store through a NULL
\* line_buf, or a load past the end of the draw buffer's allocation.
FlushBandFault ==
    /\ pc = "flush_loop"
    /\ LoopCond(area, n)
    /\ line_buf = "NULL" \/ BandReads(n).hi >= BufPixels(variant)
    /\ reads' = BandReads(n)
    /\ nullStore' = (nullStore \/ line_buf = "NULL")
    /\ pc' = "fault"
    /\ UNCHANGED <<variant, bufs, diag, timer, sys_time, ticks, raw, area, px_map,
                   owner, rendering, line_buf, n, writes, log>>
    /\ UNCHANGED frameVars

FlushLoopExit ==
    /\ pc = "flush_loop"
    /\ ~LoopCond(area, n)
    /\ pc' = StepAfter(variant, "flush_loop")
    /\ UNCHANGED <<variant, bufs, diag, timer, sys_time, ticks, raw, area, px_map,
                   owner, rendering, line_buf, n, writes, log, reads, nullStore>>
    /\ UNCHANGED frameVars

\* the plain build's single esp_lcd_panel_draw_bitmap, result dropped
FlushDraw ==
    /\ pc = "flush_draw"
    /\ \E ok \in BOOLEAN :
        writes' = Append(writes,
              PlainWindow(area) @@ [buf |-> "px_map", ok |-> ok,
                                    held |-> owner[px_map]])
    /\ log' = Append(log, "write")
    /\ pc' = StepAfter(variant, "flush_draw")
    /\ UNCHANGED <<variant, bufs, diag, timer, sys_time, ticks, raw, area, px_map,
                   owner, rendering, line_buf, n, reads, nullStore>>
    /\ UNCHANGED frameVars

\* free(line_buf) in the rotated build; lv_disp_flush_ready(disp) gives the
\* buffer back to the renderer
FlushReady ==
    /\ pc = "flush_ready"
    /\ line_buf' = IF variant = "rotated" THEN "freed" ELSE line_buf
    /\ owner' = [owner EXCEPT ![px_map] = "renderer"]
    /\ log' = Append(log, "ready")
    /\ pc' = StepAfter(variant, "flush_ready")
    /\ UNCHANGED <<variant, bufs, diag, timer, sys_time, ticks, raw, area, px_map,
                   rendering, n, writes, reads, nullStore>>
    /\ UNCHANGED frameVars

\* lv_timer_handler returns and the loop sleeps in vTaskDelay; the record
\* of the finished flush cycle is dropped
LoopDelay ==
    /\ pc = "returned"
    /\ pc' = "loop"
    /\ raw' = NoArea
    /\ area' = NoArea
    /\ px_map' = 0
    /\ line_buf' = "none"
    /\ n' = 0
    /\ writes' = <<>>
    /\ log' = <<>>
    /\ reads' = NoReads
    /\ nullStore' = FALSE
    /\ UNCHANGED <<variant, bufs, diag, timer, sys_time, ticks, owner, rendering>>
    /\ UNCHANGED frameVars

Next ==
    \/ AppStart
    \/ Tick
    \/ RenderStart
    \/ RenderDone
    \/ FlushSwap
    \/ FlushAlloc
    \/ FlushBand
    \/ FlushBandFault
    \/ FlushLoopExit
    \/ FlushDraw
    \/ FlushReady
    \/ LoopDelay

Spec == Init /\ [][Next]_vars

(***************************************************************************)
(* Properties of the application (checked under Spec).                     *)
(***************************************************************************)
IsPrefix(s, t) == Len(s) <= Len(t) /\ \A i \in 1 .. Len(s) : s[i] = t[i]

Columns(w) == w.x_start .. (w.x_end - 1)

LoopLeft == pc \in {"flush_ready", "returned"}

\* C3: in the rotated flush_cb every index read from the rendered pixel block
\* lies in [0, (x2-x1+1)*(y2-y1+1)), whatever the width and height of the region.
C3_ReadsInsideRegion ==
    variant = "rotated" =>
        /\ 0 <= reads.lo
        /\ reads.hi < AreaPixels(area)

\* C4: a rotated flush of a quantized region issues one write per band of 8
\* rows; the write of band n covers native columns
\* [LCD_H_RES - y1 - n - 8, LCD_H_RES - y1 - n) and all native rows
\* [0, LCD_V_RES); the windows of one flush are pairwise disjoint, lie inside
\* [0, LCD_H_RES) and, once the loop is left, are (y2-y1+1)/8 in number and
\* cover exactly the columns LCD_H_RES-1-y2 .. LCD_H_RES-1-y1; region
\* (10,3,50,9) is quantized to (8,0,55,15) and gives 2 writes.
C4_BandWindows ==
    variant = "rotated" =>
        /\ \A i \in 1 .. Len(writes) :
              /\ writes[i].x_start = LCD_H_RES - area.y1 - 8 * (i - 1) - 8
              /\ writes[i].x_end = LCD_H_RES - area.y1 - 8 * (i - 1)
              /\ writes[i].y_start = 0
              /\ writes[i].y_end = LCD_V_RES
              /\ 0 <= writes[i].x_start
              /\ writes[i].x_end <= LCD_H_RES
        /\ \A i, j \in 1 .. Len(writes) :
              i # j => Columns(writes[i]) \cap Columns(writes[j]) = {}
        /\ LoopLeft =>
              /\ Len(writes) * 8 = AreaH(area)
              /\ UNION {Columns(writes[i]) : i \in 1 .. Len(writes)}
                   = (LCD_H_RES - 1 - area.y2) .. (LCD_H_RES - 1 - area.y1)
        /\ raw = Rect(10, 3, 50, 9) =>
              /\ area = Rect(8, 0, 55, 15)
              /\ LoopLeft => Len(writes) = 2

C4_Witness ==
    /\ variant = "rotated"
    /\ pc = "returned"
    /\ raw = Rect(10, 3, 50, 9)
    /\ Len(writes) = 2

\* the events of a complete flush cycle with k bitmap writes
CycleLog(k) == <<"swap">> \o [i \in 1 .. k |-> "write"] \o <<"ready">>

ExpectedWrites == IF variant = "rotated" THEN AreaH(area) \div 8 ELSE 1

\* C5: in a flush cycle of either build the pixel block is byte-swapped once,
\* before the first bitmap write; the bitmap write is invoked one or more
\* times (once per band in the rotated build, exactly once in the plain
\* one); flush-complete is signalled exactly once, after the last write and
\* before flush_cb returns.
C5_FlushCycleOrder ==
    /\ IsPrefix(log, CycleLog(ExpectedWrites))
    /\ Len(writes) = Cardinality({i \in 1 .. Len(log) : log[i] = "write"})
    /\ pc = "returned" =>
          /\ log = CycleLog(ExpectedWrites)
          /\ Len(writes) >= 1

C5_Witness ==
    /\ variant = "rotated"
    /\ pc = "returned"
    /\ Len(writes) >= 2
    /\ log[Len(log)] = "ready"

\* C6: the buffer the flush path reads and hands to the panel is never one
\* the renderer is writing or owns; every panel write is made while the
\* flush path still holds the buffer, so the renderer regains it only after
\* flush-complete, which comes after every panel write of the region.
C6_NoAliasing ==
    /\ rendering # 0 => /\ owner[rendering] = "renderer"
                        /\ rendering # px_map
    /\ pc \in {"flush_swap", "flush_alloc", "flush_loop", "flush_draw"} =>
          /\ px_map # 0
          /\ owner[px_map] = "flush"
    /\ \A i \in 1 .. Len(writes) : writes[i].held = "flush"
    /\ Cardinality({b \in {1, 2} : owner[b] = "flush"}) <= 1

C6_Witness ==
    /\ pc = "returned"
    /\ px_map = 2
    /\ owner[2] = "renderer"
    /\ Len(writes) >= 1
    /\ writes[1].held = "flush"

\* C7: a bitmap write that reports failure is fatal: a diagnostic is
\* produced, the process aborts, no further write of the cycle is issued and
\* flush-complete is not signalled.
C7_WriteFailureIsFatal ==
    \A i \in 1 .. Len(writes) :
        ~writes[i].ok =>
            /\ pc = "aborted"
            /\ diag
            /\ i = Len(writes)
            /\ \A k \in 1 .. Len(log) : log[k] # "ready"

\* C8: when the allocation of a pixel buffer or of the scratch tile returns
\* NULL the process prints a diagnostic and aborts before a pixel is stored
\* through the missing buffer and before a bitmap write is issued with it.
C8_AllocFailureAborts ==
    /\ (bufs[1] = "NULL" \/ bufs[2] = "NULL") => (pc = "aborted" /\ diag)
    /\ ~nullStore
    /\ \A i \in 1 .. Len(writes) : writes[i].buf # "NULL"

\* C9: after N tick callbacks, interleaved in any way with the main loop's
\* steps, the millisecond counter is 2*N; it never decreases, and only the
\* tick callback changes it.
C9_FrameClock ==
    /\ [](sys_time = 2 * ticks)
    /\ [][/\ sys_time' >= sys_time
          /\ sys_time' # sys_time =>
                /\ ticks' = ticks + 1
                /\ UNCHANGED <<pc, area, owner, rendering, line_buf, n,
                               writes, log>>]_vars

C9_Witness ==
    /\ ticks >= 2
    /\ sys_time = 2 * ticks
    /\ pc = "flush_loop"
    /\ Len(writes) >= 1

(***************************************************************************)
(* The rounder on its own: rectangles from a bounded set, the callback     *)
(* applied to each.                                                        *)
(***************************************************************************)
I32Max == Half * (Half \div 2 - 1) + (Half - 1)
I32Min == (0 - I32Max) - 1

QuantXs == ((0 - MaxCoord) .. MaxCoord) \cup {279, 455, I32Max, I32Min}
QuantYs == {0 - MaxCoord, 0 - 8, 0 - 1, 0, 3, 9, MaxCoord, 279, I32Max, I32Min}
QuantRects == {Rect(x1, y1, x2, y2) : x1 \in QuantXs, x2 \in QuantXs,
                                       y1 \in QuantYs, y2 \in QuantYs}

InitQuantize ==
    /\ variant = "rotated"
    /\ pc = "q_pending"
    /\ raw \in {r \in QuantRects : r.x1 <= r.x2 /\ r.y1 <= r.y2}
    /\ area = raw
    /\ bufs = <<"ok", "ok">>
    /\ diag = FALSE
    /\ timer = FALSE
    /\ sys_time = 0
    /\ ticks = 0
    /\ px_map = 0
    /\ owner = <<"renderer", "renderer">>
    /\ rendering = 0
    /\ line_buf = "none"
    /\ n = 0
    /\ writes = <<>>
    /\ log = <<>>
    /\ reads = NoReads
    /\ nullStore = FALSE
    /\ tile = BlankTile
    /\ gram = BlankGram
    /\ frameY = 0

\* LV_EVENT_INVALIDATE_AREA: the callback rewrites the event's area in place
Quantize ==
    /\ pc = "q_pending"
    /\ area' = lvgl_display_rounder_callback(area)
    /\ pc' = "q_done"
    /\ UNCHANGED <<variant, bufs, diag, timer, sys_time, ticks, raw, px_map, owner,
                   rendering, line_buf, n, writes, log, reads, nullStore>>
    /\ UNCHANGED frameVars

SpecQuantize == InitQuantize /\ [][Quantize]_vars

\* C1: the rounder returns x1', y1' = the largest multiples of 8 not above
\* x1, y1 and x2' = (x2 & ~7) + 7, y2' = (y2 & ~7) + 7: the near edges are
\* multiples of 8, the far edges plus one are multiples of 8, the input lies
\* inside the result and no edge moves by more than 7.
C1_RounderAligns ==
    pc = "q_done" =>
        /\ area.x1 % 8 = 0 /\ area.x1 <= raw.x1 /\ raw.x1 - area.x1 <= 7
        /\ area.y1 % 8 = 0 /\ area.y1 <= raw.y1 /\ raw.y1 - area.y1 <= 7
        /\ area.x2 = raw.x2 - (raw.x2 % 8) + 7
        /\ area.y2 = raw.y2 - (raw.y2 % 8) + 7
        /\ area.x2 % 8 = 7 /\ area.x2 >= raw.x2 /\ area.x2 - raw.x2 <= 7
        /\ area.y2 % 8 = 7 /\ area.y2 >= raw.y2 /\ area.y2 - raw.y2 <= 7

C1_Witness ==
    /\ pc = "q_done"
    /\ raw = Rect(0 - 3, 3, 5, 9)
    /\ area = Rect(0 - 8, 0, 7, 15)

(***************************************************************************)
(* The frame harness: a full-size synthetic frame is pushed through the    *)
(* rotated flush_cb stripe by stripe into a panel that stores what each    *)
(* bitmap write sends.                                                     *)
(***************************************************************************)
\* the tallest stripe of whole bands the draw buffer holds
MaxStripe == (DRAW_BUF_LINES \div rows) * rows

\* stripe heights: one band, the tallest stripe, and what is left of the frame
\* after stripes of the tallest kind
FrameHeights == {rows, MaxStripe, LVGL_HEIGHT % MaxStripe}

InitFrame ==
    /\ variant = "rotated"
    /\ pc = "f_idle"
    /\ bufs = <<"ok", "ok">>
    /\ diag = FALSE
    /\ timer = FALSE
    /\ sys_time = 0
    /\ ticks = 0
    /\ raw = NoArea
    /\ area = NoArea
    /\ px_map = 0
    /\ owner = <<"renderer", "renderer">>
    /\ rendering = 0
    /\ line_buf = "none"
    /\ n = 0
    /\ writes = <<>>
    /\ log = <<>>
    /\ reads = NoReads
    /\ nullStore = FALSE
    /\ tile = BlankTile
    /\ gram = [c \in 0 .. (LCD_H_RES - 1) |-> [r \in 0 .. (LCD_V_RES - 1) |-> Garbage]]
    /\ frameY = 0

\* the next stripe is rendered and flush_cb is entered: byte swap, line_buf
\* allocated, n = 0
FramePush ==
    /\ pc = "f_idle"
    /\ \E h \in FrameHeights :
        /\ frameY + h <= LVGL_HEIGHT
        /\ raw' = Rect(0, frameY, LVGL_WIDTH - 1, frameY + h - 1)
    /\ area' = lvgl_display_rounder_callback(raw')
    /\ px_map' = 1
    /\ line_buf' = "ok"
    /\ tile' = FreshTile
    /\ n' = 0
    /\ writes' = <<>>
    /\ log' = <<"swap">>
    /\ pc' = "f_loop"
    /\ UNCHANGED <<variant, bufs, diag, timer, sys_time, ticks, owner, rendering,
                   reads, nullStore, gram, frameY>>

\* one iteration of the band loop: the tile is filled and written to the panel
FrameBand ==
    /\ pc = "f_loop"
    /\ LoopCond(area, n)
    /\ tile' = FillTile([i \in DOMAIN tile |-> [src |-> tile[i].src, hits |-> 0]], n)
    /\ gram' = DrawBitmap(gram, BandWindow(area, n), tile', area)
    /\ writes' = Append(writes, BandWindow(area, n) @@ [n |-> n])
    /\ reads' = BandReads(n)
    /\ log' = Append(log, "write")
    /\ n' = LoopStep(n)
    /\ UNCHANGED <<variant, pc, bufs, diag, timer, sys_time, ticks, raw, area,
                   px_map, owner, rendering, line_buf, nullStore, frameY>>

\* the loop is left: free(line_buf), lv_disp_flush_ready(disp); the harness
\* moves on to the next stripe
FrameReady ==
    /\ pc = "f_loop"
    /\ ~LoopCond(area, n)
    /\ line_buf' = "freed"
    /\ tile' = BlankTile
    /\ frameY' = area.y2 + 1
    /\ pc' = "f_idle"
    /\ raw' = NoArea
    /\ area' = NoArea
    /\ n' = 0
    /\ writes' = <<>>
    /\ log' = <<>>
    /\ reads' = NoReads
    /\ UNCHANGED <<variant, bufs, diag, timer, sys_time, ticks, px_map, owner,
                   rendering, nullStore, gram>>

NextFrame ==
    \/ FramePush
    \/ FrameBand
    \/ FrameReady

SpecFrame == InitFrame /\ [][NextFrame]_vars

\* C2: once stripes of the synthetic frame have been flushed, the native
\* position (column LCD_H_RES-1-y, row x) holds the sample of logical (x, y)
\* for every pixel of every flushed row; with the whole frame pushed, the
\* inverse transform gives back the frame.
C2_RoundTrip ==
    pc = "f_idle" =>
        \A y \in 0 .. (frameY - 1) : \A x \in 0 .. (LVGL_WIDTH - 1) :
            gram[LCD_H_RES - 1 - y][x] = Swap16(Frame(x, y))

C2_Witness ==
    /\ pc = "f_idle"
    /\ frameY = LVGL_HEIGHT
    /\ gram[0][0] = Swap16(Frame(0, LVGL_HEIGHT - 1))
    /\ gram[LCD_H_RES - 1][LCD_V_RES - 1] = Swap16(Frame(LVGL_WIDTH - 1, 0))

\* C10: in every band the stores into the scratch tile go to indices inside
\* [0, LVGL_WIDTH*8) and hit every index of that range exactly once, so the
\* tile sent holds only samples of the band's own 8 rows; its length
\* LVGL_WIDTH*8 is the pixel count of the window it is written to.
C10_TileFilledOnce ==
    (pc = "f_loop" /\ Len(writes) >= 1) =>
        LET w == writes[Len(writes)] IN
        /\ \A x \in LoopXs, y \in LoopYs :
              0 <= DstIndex(x, y) /\ DstIndex(x, y) < LVGL_WIDTH * 8
        /\ DOMAIN tile = 0 .. (LVGL_WIDTH * 8 - 1)
        /\ \A i \in DOMAIN tile :
              /\ tile[i].hits = 1
              /\ tile[i].src \div cols \in w.n .. (w.n + 7)
        /\ LVGL_WIDTH * 8 = (w.x_end - w.x_start) * (w.y_end - w.y_start)

C10_Witness ==
    /\ pc = "f_loop"
    /\ Len(writes) >= 2
    /\ tile[0].hits = 1
    /\ tile[0].src = SrcIndex(writes[Len(writes)].n, 0, 7)

====
